---- MODULE Spec2Model ----
(***************************************************************************)
(* Model of amr_kitchen/plotfile_cooker.py.                                *)
(*                                                                         *)
(* Eight specifications share the variables below:                         *)
(*   SpecRead  : the three box readers on the payload of one box record    *)
(*   SpecPool  : LevelDataStream.__getitem__ / __iter__ and the worker pool*)
(*   SpecSel   : LevelDataSelector (field layer and level layer)           *)
(*   SpecOpen  : PlotfileCooker.__init__ (header, boxes, cell headers)     *)
(*   SpecEq    : PlotfileCooker.__eq__                                     *)
(*   SpecGhost : compute_box_array and compute_ghost_map                   *)
(*   SpecWrite : the two Header writers and the parse of what they wrote   *)
(*   SpecBin   : bybinfile and map_bfile_offsets                           *)
(* A specification leaves the variables of the others at their parked      *)
(* value.                                                                  *)
(***************************************************************************)
EXTENDS Integers, Sequences, FiniteSets, TLC

VARIABLES
    rec,        \* SpecRead: the box record under the file cursor
    req,        \* SpecRead: the last reader call (kind, field argument)
    res,        \* SpecRead: what that call returned or raised
    level,      \* SpecPool: cells[lv]['files'] and cells[lv]['offsets'] of one level
    bad,        \* SpecPool: the (file, offset) records whose read raises
    breq,       \* SpecPool: the box request being served or last served
    tasks,      \* SpecPool: argument tuples handed to the worker pool, in order
    got,        \* SpecPool: results of the tasks the workers have completed
    order,      \* SpecPool: task positions in the order the workers completed them
    pc,         \* SpecPool: "idle", "map" (inside pool.map) or "imap" (iterating)
    ret,        \* SpecPool: what the last box request returned or raised
    yielded,    \* SpecPool: arrays the iterator has handed to the caller so far
    pools,      \* SpecPool: worker pools created by box requests and still alive
    plot,       \* SpecSel: the opened plotfile (field names in order, limit_level)
    farg,       \* SpecSel: the field argument of the last pck[field_arg]
    sel,        \* SpecSel: the LevelDataSelector it built, or the error it raised
    lkey,       \* SpecSel: the key of the last selector[key]
    stream,     \* SpecSel: the LevelDataStream it returned, or the error it raised
    disk,       \* SpecOpen: the plotfile on disk (Header and Cell_H of each level)
    oarg,       \* SpecOpen: the arguments of PlotfileCooker(...)
    opc,        \* SpecOpen: position inside __init__
    pck,        \* SpecOpen: the attributes __init__ has set so far
    oerr,       \* SpecOpen: the exception __init__ raised, if any
    pa,         \* SpecEq: the plotfile on the left of ==
    pb,         \* SpecEq: the plotfile on the right of ==
    eqret,      \* SpecEq: what pa == pb returned or raised, None before the call
    glv,        \* SpecGhost: one level: grid_sizes[lv] and cells[lv][indexes] in file order
    garr,       \* SpecGhost: box_arrays[lv] and barr_indices[lv], None before compute_box_array
    gmap,       \* SpecGhost: ghost_map[lv], None before compute_ghost_map
    wself,      \* SpecWrite: the parsed plotfile whose header is written
    wreq,       \* SpecWrite: the writer call: operation, field names, whether the target directory exists
    wfile,      \* SpecWrite: the target Header file: opened by the writer or not, and its lines
    wret,       \* SpecWrite: what the writer call returned or raised
    wback,      \* SpecWrite: what parsing the written Header gave, None before
    blv,        \* SpecBin: cells[lv] of one level: files and offsets of its boxes, in header order
    byield,     \* SpecBin: the tuples bybinfile(lv) yielded, None before the iteration
    bmap        \* SpecBin: what map_bfile_offsets(lv) returned, None before the call

readVars == <<rec, req, res>>
poolVars == <<level, bad, breq, tasks, got, order, pc, ret, yielded, pools>>
selVars == <<plot, farg, sel, lkey, stream>>
openVars == <<disk, oarg, opc, pck, oerr>>
eqVars == <<pa, pb, eqret>>
ghostVars == <<glv, garr, gmap>>
writeVars == <<wself, wreq, wfile, wret, wback>>
binVars == <<blv, byield, bmap>>
notRead == <<poolVars, selVars, openVars, eqVars, ghostVars, writeVars, binVars>>
notPool == <<readVars, selVars, openVars, eqVars, ghostVars, writeVars, binVars>>
notSel == <<readVars, poolVars, openVars, eqVars, ghostVars, writeVars, binVars>>
notOpen == <<readVars, poolVars, selVars, eqVars, ghostVars, writeVars, binVars>>
notEq == <<readVars, poolVars, selVars, openVars, ghostVars, writeVars, binVars>>
notGhost == <<readVars, poolVars, selVars, openVars, eqVars, writeVars, binVars>>
notWrite == <<readVars, poolVars, selVars, openVars, eqVars, ghostVars, binVars>>
notBin == <<readVars, poolVars, selVars, openVars, eqVars, ghostVars, writeVars>>
vars == <<rec, req, res, level, bad, breq, tasks, got, order, pc, ret, yielded, pools,
          plot, farg, sel, lkey, stream, disk, oarg, opc, pck, oerr,
          pa, pb, eqret,
          glv, garr, gmap,
          wself, wreq, wfile, wret, wback,
          blv, byield, bmap>>

(***************************************************************************)
(* Bounds                                                                  *)
(***************************************************************************)
MaxDim == 2      \* largest extent of a box along one axis
MaxF == 3        \* largest number of fields in a record
MaxTail == 1     \* largest number of 8-byte words following the record
MaxSel == 3      \* longest index list handed to a reader
MaxBoxes == 3    \* largest number of boxes of a level
MaxPick == 2     \* longest list of box indices in a box request
MaxLevel == 2    \* largest max_level of a plotfile
MaxArg == 2      \* longest list of fields in a field argument
MaxPools == 1    \* most worker pools alive at a time
MaxHdrBoxes == 2 \* largest number of boxes the Header declares for a level

(***************************************************************************)
(* Python / numpy helpers                                                  *)
(***************************************************************************)
None == <<>>
Some(x) == <<x>>

Min(a, b) == IF a < b THEN a ELSE b
Max(a, b) == IF a > b THEN a ELSE b

Slice(a, b, s) == [start |-> a, stop |-> b, step |-> s]

\* slice.indices(length): the normalised (start, stop, step)
slice_indices(sl, length) ==
    LET step == IF sl.step = None THEN 1 ELSE sl.step[1]
        lower == IF step < 0 THEN -1 ELSE 0
        upper == IF step < 0 THEN length - 1 ELSE length
        clamp(v) == IF v < 0 THEN Max(v + length, lower) ELSE Min(v, upper)
        start == IF sl.start = None
                 THEN (IF step < 0 THEN upper ELSE lower)
                 ELSE clamp(sl.start[1])
        stop == IF sl.stop = None
                THEN (IF step < 0 THEN lower ELSE upper)
                ELSE clamp(sl.stop[1])
    IN  <<start, stop, step>>

\* range(start, stop, step) as a sequence
PyRange(t) ==
    LET start == t[1]
        stop == t[2]
        step == t[3]
        n == IF step > 0
             THEN (IF stop > start THEN (stop - start + step - 1) \div step ELSE 0)
             ELSE (IF start > stop THEN (start - stop - step - 1) \div (-step) ELSE 0)
    IN  [k \in 1..n |-> start + (k - 1) * step]

Raise(e) == [ok |-> FALSE, exc |-> e]
NdArray(shape, at) == [ok |-> TRUE, shape |-> shape, at |-> at]

(***************************************************************************)
(* The binary file around one box record.  Byte positions are counted from *)
(* the end of the record header line; rec.base bytes of the file precede   *)
(* that point (earlier records and the header line itself).                *)
(***************************************************************************)
Junk == -1      \* bytes that are not a payload double of this record

\* the double stored for field f at cell (i, j)
Val(f, i, j) == 100 * (f + 1) + 10 * j + i

Records ==
    [d0 : 1..MaxDim, d1 : 1..MaxDim, F : 1..MaxF, tail : 0..MaxTail,
     base : {16, 104}]

\* shape_from_header(line): spatial shape followed by the field count
shape_from_header(r) == <<r.d0, r.d1, r.F>>

\* np.prod(shape[:-1])
SpatialSize(shape) == shape[1] * shape[2]

\* field-major blocks, column-major (Fortran) order within a block
WordAt(r, b) ==
    LET N == r.d0 * r.d1
        w == b \div 8
    IN  IF b >= 0 /\ b % 8 = 0 /\ w < r.F * N
        THEN Val(w \div N, (w % N) % r.d0, (w % N) \div r.d0)
        ELSE Junk

FileEnd(r) == 8 * (r.F * r.d0 * r.d1 + r.tail)

\* np.fromfile(bf, 'float64', count) with the cursor at byte pos
fromfile(r, pos, count) ==
    LET avail == IF pos >= FileEnd(r) THEN 0 ELSE (FileEnd(r) - pos) \div 8
        n == IF count < 0 THEN avail ELSE Min(count, avail)
    IN  [k \in 1..n |-> WordAt(r, pos + 8 * (k - 1))]

\* data.reshape((d0, d1), order='F')
reshape2(data, d0, d1) ==
    IF Len(data) # d0 * d1 THEN Raise("ValueError")
    ELSE NdArray(<<d0, d1>>,
                 [ix \in (0..d0-1) \X (0..d1-1) |-> data[1 + ix[1] + d0 * ix[2]]])

\* data.reshape((d0, d1, c), order='F'); c = -1 is inferred by numpy
reshape3(data, d0, d1, c) ==
    LET cc == IF c = -1 /\ Len(data) % (d0 * d1) = 0
              THEN Len(data) \div (d0 * d1) ELSE c
    IN  IF cc < 0 \/ Len(data) # d0 * d1 * cc THEN Raise("ValueError")
        ELSE NdArray(<<d0, d1, cc>>,
                     [ix \in (0..d0-1) \X (0..d1-1) \X (0..cc-1) |->
                         data[1 + ix[1] + d0 * ix[2] + d0 * d1 * ix[3]]])

\* arr[..., idxs] for a sequence of in-range, non-negative positions
TakeLast(arr, idxs) ==
    NdArray(<<arr.shape[1], arr.shape[2], Len(idxs)>>,
            [ix \in (0..arr.shape[1]-1) \X (0..arr.shape[2]-1) \X (0..Len(idxs)-1) |->
                arr.at[<<ix[1], ix[2], idxs[ix[3] + 1]>>]])

\* arr[..., k] for one in-range position
TakeColumn(arr, k) ==
    NdArray(<<arr.shape[1], arr.shape[2]>>,
            [ix \in (0..arr.shape[1]-1) \X (0..arr.shape[2]-1) |->
                arr.at[<<ix[1], ix[2], k>>]])

\* arr[..., slice]
IndexSlice(arr, sl) ==
    IF ~arr.ok THEN arr
    ELSE TakeLast(arr, PyRange(slice_indices(sl, arr.shape[3])))

\* arr[..., index array]: negative positions wrap, others raise IndexError
IndexArray(arr, idxs) ==
    IF ~arr.ok THEN arr
    ELSE LET c == arr.shape[3]
         IN  IF \E k \in 1..Len(idxs) : idxs[k] < -c \/ idxs[k] >= c
             THEN Raise("IndexError")
             ELSE TakeLast(arr, [k \in 1..Len(idxs) |->
                                   IF idxs[k] < 0 THEN idxs[k] + c ELSE idxs[k]])

(***************************************************************************)
(* The three readers                                                       *)
(***************************************************************************)
\* bf.seek(n, 1) from the payload start: fails before the start of the file
SeekOk(r, pos) == pos >= -r.base

mp_read_box_single_field_NoProd(r, k) ==
    LET shape == shape_from_header(r)
        pos == k * 8
    IN  IF ~SeekOk(r, pos) THEN Raise("OSError")
        ELSE reshape2(fromfile(r, pos, SpatialSize(shape)), shape[1], shape[2])

mp_read_box_single_field(r, k) ==
    LET shape == shape_from_header(r)
        pos == SpatialSize(shape) * k * 8
    IN  IF ~SeekOk(r, pos) THEN Raise("OSError")
        ELSE reshape2(fromfile(r, pos, SpatialSize(shape)), shape[1], shape[2])

mp_read_box_slice_field(r, sl) ==
    LET shape == shape_from_header(r)
        ind == slice_indices(sl, shape[3])
        start == ind[1]
        stop == ind[2]
        slice_size == stop - start
        pos == SpatialSize(shape) * start * 8
        data == fromfile(r, pos, SpatialSize(shape) * slice_size)
    IN  IF ~SeekOk(r, pos) THEN Raise("OSError")
        ELSE IndexSlice(reshape3(data, shape[1], shape[2], slice_size), sl)

mp_read_box_index_field(r, S) ==
    IF Len(S) = 0 THEN Raise("IndexError")
    ELSE
    LET diff == S[Len(S)] - S[1] + 1
        shape == shape_from_header(r)
        pos == SpatialSize(shape) * S[1] * 8
        data == fromfile(r, pos, SpatialSize(shape) * diff)
    IN  IF ~SeekOk(r, pos) THEN Raise("OSError")
        ELSE IndexArray(reshape3(data, shape[1], shape[2], diff),
                        [k \in 1..Len(S) |-> S[k] - S[1]])

(***************************************************************************)
(* SpecRead: reader calls on one record                                    *)
(***************************************************************************)
NoReq == [kind |-> "none", farg |-> None]
NoRes == [ok |-> FALSE, exc |-> "none"]

\* the values slice members take in a field slice
SliceMembers(F) == {None} \cup {Some(x) : x \in 0..F}

\* index lists the field layer lets through (non-empty, indices in -F..F-1),
\* here with indices in -1..F-1
IndexLists(F) ==
    UNION {[1..n -> (-1)..(F - 1)] : n \in 1..MaxSel}

ParkRead ==
    /\ rec = [d0 |-> 1, d1 |-> 1, F |-> 1, tail |-> 0, base |-> 16]
    /\ req = NoReq
    /\ res = NoRes

ParkPool ==
    /\ level = [files |-> <<>>, offsets |-> <<>>]
    /\ bad = {}
    /\ breq = NoReq
    /\ tasks = <<>>
    /\ got = <<>>
    /\ order = <<>>
    /\ pc = "idle"
    /\ ret = NoRes
    /\ yielded = <<>>
    /\ pools = 0

NoArg == [t |-> "none", v |-> None]

ParkSel ==
    /\ plot = [names |-> <<>>, limit_level |-> 0]
    /\ farg = NoArg
    /\ sel = NoRes
    /\ lkey = None
    /\ stream = NoRes

NoErr == [exc |-> "none"]
NoArgs == [limit_level |-> None, header_only |-> FALSE, validate_mode |-> FALSE]
NoPck == [max_level |-> 0, limit_level |-> None, boxes |-> <<>>, cells |-> <<>>,
          has_cells |-> FALSE]

ParkOpen ==
    /\ disk = [max_level |-> 0, nboxes |-> <<>>, ncells |-> <<>>,
               hfault |-> <<>>, cfault |-> <<>>]
    /\ oarg = NoArgs
    /\ opc = "closed"
    /\ pck = NoPck
    /\ oerr = NoErr

ParkEq ==
    /\ pa = None
    /\ pb = None
    /\ eqret = None

ParkGhost ==
    /\ glv = None
    /\ garr = None
    /\ gmap = None

ParkWrite ==
    /\ wself = None
    /\ wreq = None
    /\ wfile = None
    /\ wret = None
    /\ wback = None

ParkBin ==
    /\ blv = None
    /\ byield = None
    /\ bmap = None

InitRead ==
    /\ rec \in Records
    /\ req = NoReq
    /\ res = NoRes
    /\ ParkPool
    /\ ParkSel
    /\ ParkOpen
    /\ ParkEq
    /\ ParkGhost
    /\ ParkWrite
    /\ ParkBin

ReadSingle ==
    \E k \in (-rec.F)..(rec.F - 1) :
        /\ req.kind = "none"
        /\ req' = [kind |-> "single", farg |-> k]
        /\ res' = mp_read_box_single_field(rec, k)
        /\ UNCHANGED <<rec, notRead>>

ReadSlice ==
    \E a \in SliceMembers(rec.F), b \in SliceMembers(rec.F) :
        /\ req.kind = "none"
        /\ req' = [kind |-> "slice", farg |-> Slice(a, b, None)]
        /\ res' = mp_read_box_slice_field(rec, Slice(a, b, None))
        /\ UNCHANGED <<rec, notRead>>

ReadIndex ==
    \E S \in IndexLists(rec.F) :
        /\ req.kind = "none"
        /\ req' = [kind |-> "index", farg |-> S]
        /\ res' = mp_read_box_index_field(rec, S)
        /\ UNCHANGED <<rec, notRead>>

NextRead == ReadSingle \/ ReadSlice \/ ReadIndex

SpecRead == InitRead /\ [][NextRead]_vars

(***************************************************************************)
(* Claims about the readers (SpecRead)                                     *)
(***************************************************************************)
FullRange(F) == Slice(Some(0), Some(F), None)

\* the array whose j-th trailing column is field cols[j+1] of the record
FieldColumns(r, cols) ==
    NdArray(<<r.d0, r.d1, Len(cols)>>,
            [ix \in (0..r.d0-1) \X (0..r.d1-1) \X (0..Len(cols)-1) |->
                Val(cols[ix[3] + 1], ix[1], ix[2])])

\* C1: the single-field read of k, 0 <= k < F, returns the same spatial array
\* as reading the full field range with the contiguous-range reader and then
\* selecting column k of the trailing axis.
C1_SingleEqualsFullColumn ==
    (req.kind = "single" /\ req.farg \in 0..(rec.F - 1)) =>
        /\ res.ok
        /\ res = TakeColumn(mp_read_box_slice_field(rec, FullRange(rec.F)), req.farg)

C1_Witness ==
    /\ req.kind = "single"
    /\ req.farg = 2
    /\ rec.d0 = 2 /\ rec.d1 = 2 /\ rec.F = 3
    /\ res.ok
    /\ res.at[<<1, 0>>] = Val(2, 1, 0)

\* C2: for every contiguous field range [a,b) with 0 <= a < b <= F the
\* contiguous-range reader returns an array whose trailing axis has length
\* b-a and whose j-th column is field a+j of the record.
C2_SliceReturnsRange ==
    (/\ req.kind = "slice"
     /\ req.farg.start # None /\ req.farg.stop # None
     /\ req.farg.start[1] < req.farg.stop[1]) =>
        res = FieldColumns(rec, [j \in 1..(req.farg.stop[1] - req.farg.start[1]) |->
                                    req.farg.start[1] + j - 1])

\* C3: for every non-empty list S of valid field indices, sorted or not, the
\* index-set reader returns an array whose j-th trailing column is field S[j].
C3_IndexReturnsColumns ==
    (/\ req.kind = "index"
     /\ \A k \in 1..Len(req.farg) : req.farg[k] \in 0..(rec.F - 1)) =>
        res = FieldColumns(rec, req.farg)

(***************************************************************************)
(* SpecPool: LevelDataStream.__getitem__ and __iter__ on one level         *)
(***************************************************************************)
Files == 1..2
Offsets == {0, 100}

\* a level: box i lives in files[i] at offsets[i]; no two boxes share a record
Levels ==
    {lv \in UNION {[files : [1..n -> Files], offsets : [1..n -> Offsets]] : n \in 1..MaxBoxes} :
        \A i, j \in 1..Len(lv.files) :
            (lv.files[i] = lv.files[j] /\ lv.offsets[i] = lv.offsets[j]) => i = j}

Size(lv) == Len(lv.files)

\* the array stored in the record at (file, offset)
Content(f, o) == 1000 * f + o

\* self.read_fun((bfile, offset, farg)) for the field argument of the stream
read_fun(badrecs, args) ==
    IF <<args[1], args[2]>> \in badrecs THEN Raise("ReadError")
    ELSE [ok |-> TRUE, val |-> Content(args[1], args[2])]

\* np.array(idx): dtype "int" for a list of ints, "bool" for a list of
\* bools, "float" for the empty list
NpArray(dtype, v) == [dtype |-> dtype, v |-> v]

\* arr[i] for an integer
NpItem(arr, i) ==
    IF i < -Len(arr) \/ i >= Len(arr) THEN Raise("IndexError")
    ELSE [ok |-> TRUE, val |-> arr[(IF i < 0 THEN i + Len(arr) ELSE i) + 1]]

\* arr[slice]
NpSlice(arr, sl) ==
    LET r == PyRange(slice_indices(sl, Len(arr)))
    IN  [k \in 1..Len(r) |-> arr[r[k] + 1]]

\* the positions a boolean mask selects, in increasing order
RECURSIVE MaskPositions(_, _)
MaskPositions(mask, n) ==
    IF n = 0 THEN <<>>
    ELSE IF mask[n] THEN Append(MaskPositions(mask, n - 1), n - 1)
         ELSE MaskPositions(mask, n - 1)

\* arr[idx] for an index array
NpTake(arr, idx) ==
    IF idx.dtype = "int"
    THEN IF \E k \in 1..Len(idx.v) : idx.v[k] < -Len(arr) \/ idx.v[k] >= Len(arr)
         THEN Raise("IndexError")
         ELSE [ok |-> TRUE,
               val |-> [k \in 1..Len(idx.v) |->
                           arr[(IF idx.v[k] < 0 THEN idx.v[k] + Len(arr) ELSE idx.v[k]) + 1]]]
    ELSE IF idx.dtype = "bool"
    THEN IF Len(idx.v) # Len(arr) THEN Raise("IndexError")
         ELSE LET pos == MaskPositions(idx.v, Len(idx.v))
              IN  [ok |-> TRUE, val |-> [k \in 1..Len(pos) |-> arr[pos[k] + 1]]]
    ELSE Raise("IndexError")

\* np.count_nonzero(mask)
count_nonzero(mask) == Cardinality({k \in 1..Len(mask) : mask[k]})

\* zip(a, b, [farg]*count)
Zip3(a, b, count) ==
    [k \in 1..Min(Min(Len(a), Len(b)), Max(count, 0)) |-> <<a[k], b[k]>>]

\* pool.map: the results in task order, or the exception of a failed task
MapCollectByCompletion(ts, results, completion) ==
    IF \E t \in 1..Len(ts) : ~results[t].ok THEN Raise("ReadError")
    ELSE [ok |-> TRUE, val |-> [k \in 1..Len(ts) |-> results[completion[k]].val]]

MapCollect(ts, results, completion) ==
    IF \E t \in 1..Len(ts) : ~results[t].ok THEN Raise("ReadError")
    ELSE [ok |-> TRUE, val |-> [k \in 1..Len(ts) |-> results[k].val]]

\* No request closes, terminates or joins the pool it creates (lines 60-86):
\* when the request is over the pool is unreferenced, and whether it is then
\* finalised is left to the interpreter's garbage collector.  With n pools
\* alive, the last of them unreferenced, either outcome can follow.
Dropped(n) == {n - 1, n}

BoxSliceMembers(n) == {None} \cup {Some(x) : x \in (-1)..n}
BoxSliceSteps == {None, Some(2), Some(-1)}

\* the index lists and the masks a caller passes for a level of n boxes
BoxIndexLists(n) == UNION {[1..m -> (-n)..n] : m \in 1..MaxPick}
BoxMasks(n) == [1..n -> BOOLEAN]

InitPool ==
    /\ level \in Levels
    /\ bad \in {{}} \cup {{<<level.files[i], level.offsets[i]>>} : i \in 1..Len(level.files)}
    /\ breq = NoReq
    /\ tasks = <<>>
    /\ got = <<>>
    /\ order = <<>>
    /\ pc = "idle"
    /\ ret = NoRes
    /\ yielded = <<>>
    /\ pools = 0
    /\ ParkRead
    /\ ParkSel
    /\ ParkOpen
    /\ ParkEq
    /\ ParkGhost
    /\ ParkWrite
    /\ ParkBin

\* __getitem__(idx), isinstance(idx, int): one synchronous read
GetInt ==
    \E i \in (-Size(level))..Size(level) :
        /\ pc = "idle"
        /\ breq' = [kind |-> "int", farg |-> i]
        /\ LET f == NpItem(level.files, i)
               o == NpItem(level.offsets, i)
           IN  ret' = IF ~f.ok THEN f ELSE read_fun(bad, <<f.val, o.val>>)
        /\ tasks' = <<>> /\ got' = <<>> /\ order' = <<>> /\ yielded' = <<>>
        /\ UNCHANGED <<level, bad, pc, pools, notPool>>

\* __getitem__(idx), isinstance(idx, slice): dispatch to pool.map
GetSlice ==
    \E a \in BoxSliceMembers(Size(level)), b \in BoxSliceMembers(Size(level)),
       st \in BoxSliceSteps :
        LET sl == Slice(a, b, st)
            slice_size == Len(PyRange(slice_indices(sl, Size(level))))
        IN  /\ pc = "idle"
            /\ pools < MaxPools
            /\ pools' = pools + 1
            /\ breq' = [kind |-> "slice", farg |-> sl]
            /\ tasks' = Zip3(NpSlice(level.files, sl), NpSlice(level.offsets, sl), slice_size)
            /\ got' = <<>> /\ order' = <<>> /\ yielded' = <<>>
            /\ ret' = NoRes
            /\ pc' = "map"
            /\ UNCHANGED <<level, bad, notPool>>

\* __getitem__(idx), list or ndarray: dispatch to pool.map
GetArray(dtype, v) ==
    LET idx == NpArray(dtype, v)
        f == NpTake(level.files, idx)
        o == NpTake(level.offsets, idx)
        count == IF idx.dtype = "int" THEN Len(idx.v) ELSE count_nonzero(idx.v)
    IN  /\ pc = "idle"
        /\ pools < MaxPools
        /\ breq' = [kind |-> "list", farg |-> idx]
        /\ got' = <<>> /\ order' = <<>> /\ yielded' = <<>>
        /\ IF f.ok
           THEN /\ tasks' = Zip3(f.val, o.val, count)
                /\ ret' = NoRes
                /\ pc' = "map"
                /\ pools' = pools + 1
           ELSE /\ tasks' = <<>>
                /\ ret' = f
                /\ pc' = "idle"
                /\ pools' \in Dropped(pools + 1)
        /\ UNCHANGED <<level, bad, notPool>>

GetList ==
    \/ \E v \in BoxIndexLists(Size(level)) : GetArray("int", v)
    \/ \E v \in BoxMasks(Size(level)) : GetArray("bool", v)
    \/ GetArray("float", <<>>)

\* __iter__: pool.imap over every box of the level
Iter ==
    /\ pc = "idle"
    /\ pools < MaxPools
    /\ pools' = pools + 1
    /\ breq' = [kind |-> "iter", farg |-> None]
    /\ tasks' = Zip3(level.files, level.offsets, Len(level.files))
    /\ got' = <<>> /\ order' = <<>> /\ yielded' = <<>>
    /\ ret' = NoRes
    /\ pc' = "imap"
    /\ UNCHANGED <<level, bad, notPool>>

\* a worker finishes one of the outstanding tasks
WorkerRun ==
    \E t \in 1..Len(tasks) :
        /\ pc \in {"map", "imap"}
        /\ t \notin DOMAIN got
        /\ got' = got @@ (t :> read_fun(bad, tasks[t]))
        /\ order' = Append(order, t)
        /\ UNCHANGED <<level, bad, breq, tasks, pc, ret, yielded, pools, notPool>>

\* pool.map returns once every task has completed
MapReturn ==
    /\ pc = "map"
    /\ DOMAIN got = 1..Len(tasks)
    /\ ret' = MapCollect(tasks, got, order)
    /\ pc' = "idle"
    /\ pools' \in Dropped(pools)
    /\ tasks' = <<>> /\ got' = <<>> /\ order' = <<>>
    /\ UNCHANGED <<level, bad, breq, yielded, notPool>>

\* next() on the imap iterator: the next result in task order
IterNext ==
    /\ pc = "imap"
    /\ Len(yielded) < Len(tasks)
    /\ (Len(yielded) + 1) \in DOMAIN got
    /\ LET r == got[Len(yielded) + 1]
       IN  IF r.ok
           THEN /\ yielded' = Append(yielded, r.val)
                /\ UNCHANGED <<pc, ret, tasks, got, order, pools>>
           ELSE /\ ret' = r
                /\ pc' = "idle"
                /\ pools' \in Dropped(pools)
                /\ tasks' = <<>> /\ got' = <<>> /\ order' = <<>>
                /\ UNCHANGED yielded
    /\ UNCHANGED <<level, bad, breq, notPool>>

\* next() after the last result: StopIteration ends the loop
IterStop ==
    /\ pc = "imap"
    /\ Len(yielded) = Len(tasks)
    /\ ret' = [ok |-> TRUE, val |-> yielded]
    /\ pc' = "idle"
    /\ pools' \in Dropped(pools)
    /\ tasks' = <<>> /\ got' = <<>> /\ order' = <<>>
    /\ UNCHANGED <<level, bad, breq, yielded, notPool>>

NextPool ==
    GetInt \/ GetSlice \/ GetList \/ Iter \/ WorkerRun \/ MapReturn \/ IterNext \/ IterStop

SpecPool == InitPool /\ [][NextPool]_vars

(***************************************************************************)
(* Claims about box requests (SpecPool)                                    *)
(***************************************************************************)
\* the box positions a range or list/mask request selects, in caller order
Selected(r) ==
    IF r.kind = "slice" THEN PyRange(slice_indices(r.farg, Size(level)))
    ELSE IF r.farg.dtype = "bool" THEN MaskPositions(r.farg.v, Len(r.farg.v))
    ELSE r.farg.v

\* the integer form stream[i] on the same level
IntegerForm(i) ==
    read_fun(bad, <<NpItem(level.files, i).val, NpItem(level.offsets, i).val>>)

\* every selected position names a box of the level whose read succeeds
SelectionReadable(r) ==
    /\ (r.kind = "list" /\ r.farg.dtype = "bool") => Len(r.farg.v) = Size(level)
    /\ \A k \in 1..Len(Selected(r)) :
          /\ Selected(r)[k] \in (-Size(level))..(Size(level) - 1)
          /\ IntegerForm(Selected(r)[k]).ok

\* C4: a completed range or list/mask request returns exactly one array per
\* selected box, in the caller's order, each equal to the integer-form read of
\* that box, whatever order the workers completed in.
C4_ParallelEqualsSequential ==
    (/\ pc = "idle"
     /\ breq.kind \in {"slice", "list"}
     /\ SelectionReadable(breq)) =>
        ret = [ok |-> TRUE,
               val |-> [k \in 1..Len(Selected(breq)) |-> IntegerForm(Selected(breq)[k]).val]]

\* the distinct binary files of the level
DistinctFiles(lv) == {lv.files[i] : i \in 1..Len(lv.files)}

\* C5: plain iteration dispatches one worker task per distinct binary file of
\* the level, not one per box.
C5_IterOneTaskPerFile ==
    (pc = "imap") => Len(tasks) = Cardinality(DistinctFiles(level))

(***************************************************************************)
(* SpecSel: LevelDataSelector, the field layer and the level layer         *)
(***************************************************************************)
Names == {"temp", "density", "pressure"}

\* self.fields: the field names of the Header in on-disk order, no duplicates
FieldLists ==
    {f \in UNION {[1..n -> Names] : n \in 1..MaxF} :
        \A i, j \in 1..Len(f) : f[i] = f[j] => i = j}

\* fields[name]: the index stored for the name when the Header was parsed
FieldIndex(names, name) == (CHOOSE i \in 1..Len(names) : names[i] = name) - 1

HasField(names, name) == \E i \in 1..Len(names) : names[i] = name

\* the IndexError of lines 103-105, whose message carries len(fields)
FieldBoundsError(n) == [ok |-> FALSE, exc |-> "IndexError", nfields |-> n]

\* the ValueError of lines 112-113, whose message carries limit_level
LevelBoundsError(l) == [ok |-> FALSE, exc |-> "ValueError", limit_level |-> l]

\* a field argument: t is "int" (index), "str" (name), "ints" (index list),
\* "strs" (name list) or "slice"
FieldArg(t, v) == [t |-> t, v |-> v]

\* np.array(list(fields.keys()))[field_arg] raises IndexError
KeysIndexError(names, arg) ==
    IF arg.t = "int" THEN arg.v < -Len(names) \/ arg.v >= Len(names)
    ELSE IF arg.t = "ints"
    THEN \E k \in 1..Len(arg.v) : arg.v[k] < -Len(names) \/ arg.v[k] >= Len(names)
    ELSE FALSE

\* LevelDataSelector.__init__(fields, boxes, field_arg, limit_level)
Selector_init(names, arg) ==
    IF arg.t = "str"
    THEN IF HasField(names, arg.v)
         THEN [ok |-> TRUE, farg |-> FieldArg("int", FieldIndex(names, arg.v))]
         ELSE Raise("KeyError")
    ELSE IF arg.t \in {"ints", "strs"} /\ Len(arg.v) = 0
    THEN Raise("IndexError")
    ELSE IF arg.t = "strs"
    THEN IF \A k \in 1..Len(arg.v) : HasField(names, arg.v[k])
         THEN [ok |-> TRUE,
               farg |-> FieldArg("ints", [k \in 1..Len(arg.v) |-> FieldIndex(names, arg.v[k])])]
         ELSE Raise("KeyError")
    ELSE IF KeysIndexError(names, arg)
    THEN FieldBoundsError(Len(names))
    ELSE [ok |-> TRUE, farg |-> arg]

\* self.boxes[key] on the list of limit_level + 1 levels
LevelItem(limit, key) ==
    IF key < -(limit + 1) \/ key > limit THEN Raise("IndexError")
    ELSE [ok |-> TRUE, val |-> IF key < 0 THEN key + limit + 1 ELSE key]

\* LevelDataSelector.__getitem__(key)
Selector_getitem_Ge(limit, fa, key) ==
    IF key >= limit THEN LevelBoundsError(limit)
    ELSE LET lv == LevelItem(limit, key)
         IN  IF ~lv.ok THEN lv
             ELSE [ok |-> TRUE, lv |-> lv.val, farg |-> fa]

Selector_getitem(limit, fa, key) ==
    IF key > limit THEN LevelBoundsError(limit)
    ELSE LET lv == LevelItem(limit, key)
         IN  IF ~lv.ok THEN lv
             ELSE [ok |-> TRUE, lv |-> lv.val, farg |-> fa]

InitSel ==
    /\ plot \in [names : FieldLists, limit_level : 0..MaxLevel]
    /\ farg = NoArg
    /\ sel = NoRes
    /\ lkey = None
    /\ stream = NoRes
    /\ ParkRead
    /\ ParkPool
    /\ ParkOpen
    /\ ParkEq
    /\ ParkGhost
    /\ ParkWrite
    /\ ParkBin

\* pck[field_arg], for a field argument of type t and value v
FieldSelectArg(t, v) ==
    LET arg == [t |-> t, v |-> IF t = "slice" THEN Slice(v[1], v[2], None) ELSE v]
    IN  /\ farg.t = "none"
        /\ farg' = arg
        /\ sel' = Selector_init(plot.names, arg)
        /\ lkey' = None
        /\ stream' = NoRes
        /\ UNCHANGED <<plot, notSel>>

FieldSelect ==
    \/ \E k \in (-(MaxF + 1))..MaxF : FieldSelectArg("int", k)
    \/ \E x \in Names : FieldSelectArg("str", x)
    \/ \E v \in UNION {[1..n -> (-(MaxF + 1))..MaxF] : n \in 0..MaxArg} :
          FieldSelectArg("ints", v)
    \/ \E v \in UNION {[1..n -> Names] : n \in 0..MaxArg} : FieldSelectArg("strs", v)
    \/ \E a \in SliceMembers(MaxF), b \in SliceMembers(MaxF) :
          FieldSelectArg("slice", <<a, b>>)

\* selector[key]
LevelSelect ==
    \E key \in (-(MaxLevel + 2))..(MaxLevel + 1) :
        /\ sel.ok
        /\ lkey = None
        /\ lkey' = Some(key)
        /\ stream' = Selector_getitem(plot.limit_level, sel.farg, key)
        /\ UNCHANGED <<plot, farg, sel, notSel>>

NextSel == FieldSelect \/ LevelSelect

SpecSel == InitSel /\ [][NextSel]_vars

(***************************************************************************)
(* Claims about the selector layers (SpecSel)                              *)
(***************************************************************************)
\* C6 as stated: every integer key outside [0, limit_level], above or below,
\* fails with the bounds error naming limit_level and returns no stream.
C6_KeyOutsideRejected ==
    (lkey # None /\ lkey[1] \notin 0..plot.limit_level) =>
        stream = LevelBoundsError(plot.limit_level)

\* C6 amended: a key above limit_level fails with the bounds error naming
\* limit_level; a key in [0, limit_level] returns the stream of that level; a
\* key in [-(limit_level+1), -1] returns the stream of level
\* limit_level + 1 + key; a key below -(limit_level+1) fails with IndexError.
C6_LevelLayer ==
    (lkey # None) =>
        LET k == lkey[1]
            L == plot.limit_level
        IN  /\ k > L => stream = LevelBoundsError(L)
            /\ k \in 0..L => stream = [ok |-> TRUE, lv |-> k, farg |-> sel.farg]
            /\ k \in (-(L + 1))..(-1) =>
                  stream = [ok |-> TRUE, lv |-> L + 1 + k, farg |-> sel.farg]
            /\ k < -(L + 1) => stream = Raise("IndexError")

C6_Witness ==
    /\ lkey # None
    /\ plot.limit_level = 1
    /\ lkey[1] = 2
    /\ stream = LevelBoundsError(1)

\* the integer indices a field argument contains
ArgIndices(arg) ==
    IF arg.t = "int" THEN {arg.v}
    ELSE IF arg.t = "ints" THEN {arg.v[k] : k \in 1..Len(arg.v)}
    ELSE {}

\* C7: an integer index or index list containing an index outside the field
\* range 0..F-1 is rejected with the bounds error naming F; one whose indices
\* are all in 0..F-1 is accepted; a name resolves to its on-disk index.
C7_FieldOutsideRejected ==
    LET F == Len(plot.names)
    IN  /\ (farg.t \in {"int", "ints"} /\ \E k \in ArgIndices(farg) : k \notin 0..(F - 1)) =>
              sel = FieldBoundsError(F)
        /\ (farg.t \in {"int", "ints"} /\ ArgIndices(farg) # {}
            /\ \A k \in ArgIndices(farg) : k \in 0..(F - 1)) =>
              sel = [ok |-> TRUE, farg |-> farg]
        /\ (farg.t = "str" /\ HasField(plot.names, farg.v)) =>
              /\ sel.ok
              /\ plot.names[sel.farg.v + 1] = farg.v

(***************************************************************************)
(* SpecOpen: PlotfileCooker.__init__                                       *)
(*                                                                         *)
(* The Header preamble (version, fields, max_level, grids, resolutions,    *)
(* the 0 line) is well formed.  Level lv of the Header, counted from 1 in  *)
(* the sequences below, declares nboxes[lv] boxes and the Cell_H of that   *)
(* level lists ncells[lv] boxes (index ranges, files and offsets);         *)
(* hfault[lv] is the exception the Header block raises in read_boxes ("ok" *)
(* when it parses) and cfault[lv] the exception the Cell_H raises in       *)
(* read_cell_headers.                                                      *)
(***************************************************************************)
HdrFaults == {"ValueError", "AssertionError"}
CellFaults == {"AssertionError", "FileNotFoundError"}

\* one value per level, at most one of them a fault
FaultMaps(n, kinds) ==
    {f \in [1..n -> {"ok"} \cup kinds] :
        \A i, j \in 1..n : (f[i] # "ok" /\ f[j] # "ok") => i = j}

\* the Cell_H of at most one level lists another number of boxes than the
\* Header declares
Plotfiles ==
    UNION {{p \in [max_level : {ml},
                   nboxes : [1..(ml + 1) -> 1..MaxHdrBoxes],
                   ncells : [1..(ml + 1) -> 1..MaxHdrBoxes],
                   hfault : FaultMaps(ml + 1, HdrFaults),
                   cfault : FaultMaps(ml + 1, CellFaults)] :
              \A i, j \in 1..(ml + 1) :
                 (p.ncells[i] # p.nboxes[i] /\ p.ncells[j] # p.nboxes[j]) =>
                     (i = j /\ p.ncells[i] = (p.nboxes[i] % MaxHdrBoxes) + 1)}
           : ml \in 0..MaxLevel}

\* the limit_level arguments a caller passes
LimitArgs == {None} \cup {Some(x) : x \in (-1)..(MaxLevel + 1)}

\* TastesBadError whose message carries traceback.format_exc() of e
TastesBadError(e) == [exc |-> "TastesBadError", traceback |-> e]
RawError(e) == [exc |-> e]

\* the ValueError of lines 180-182
LimitError == "ValueError: The limit level must be less or equal than the maximum AMR level"

\* lines 175-182: the level limit, or the usage error
LimitLevel_NoCheck(limit, max_level) ==
    IF limit = None THEN [ok |-> TRUE, val |-> max_level]
    ELSE [ok |-> TRUE, val |-> limit[1]]

LimitLevel(limit, max_level) ==
    IF limit = None THEN [ok |-> TRUE, val |-> max_level]
    ELSE IF limit[1] <= max_level THEN [ok |-> TRUE, val |-> limit[1]]
    ELSE Raise(LimitError)

\* range(self.limit_level + 1): how many levels the two read loops visit
LevelsToRead_NoPlus(limit_level) == Max(limit_level, 0)

LevelsToRead(limit_level) == Max(limit_level + 1, 0)

\* the except clauses of lines 186-198 and 203-214
Surface_Raw(validate_mode, e) == RawError(e)

Surface(validate_mode, e) ==
    IF validate_mode THEN TastesBadError(e) ELSE RawError(e)

\* the fault of Header or Cell_H level lv (counted from 0); a level the file
\* does not hold cannot be parsed
FaultAt(faults, lv) ==
    IF lv + 1 \in DOMAIN faults THEN faults[lv + 1] ELSE "ValueError"

InitOpen ==
    /\ disk \in Plotfiles
    /\ oarg = NoArgs
    /\ opc = "closed"
    /\ pck = NoPck
    /\ oerr = NoErr
    /\ ParkRead
    /\ ParkPool
    /\ ParkSel
    /\ ParkEq
    /\ ParkGhost
    /\ ParkWrite
    /\ ParkBin

\* lines 144-173: open the Header and parse its preamble
Open(limit, header_only, validate_mode) ==
    /\ opc = "closed"
    /\ oarg' = [limit_level |-> limit, header_only |-> header_only,
                validate_mode |-> validate_mode]
    /\ pck' = [max_level |-> disk.max_level, limit_level |-> None,
               boxes |-> <<>>, cells |-> <<>>, has_cells |-> FALSE]
    /\ opc' = "limit"
    /\ UNCHANGED <<disk, oerr, notOpen>>

OpenAny ==
    \E limit \in LimitArgs, header_only \in BOOLEAN, validate_mode \in BOOLEAN :
        Open(limit, header_only, validate_mode)

\* lines 174-182: define the max level we read
CheckLimit ==
    /\ opc = "limit"
    /\ LET l == LimitLevel(oarg.limit_level, pck.max_level)
       IN  IF l.ok
           THEN /\ pck' = [pck EXCEPT !.limit_level = Some(l.val)]
                /\ opc' = "boxes"
                /\ UNCHANGED oerr
           ELSE /\ oerr' = RawError(l.exc)
                /\ opc' = "raised"
                /\ UNCHANGED pck
    /\ UNCHANGED <<disk, oarg, notOpen>>

\* one iteration of the loop of read_boxes (lines 360-388)
ReadBoxesLevel ==
    /\ opc = "boxes"
    /\ Len(pck.boxes) < LevelsToRead(pck.limit_level[1])
    /\ LET lv == Len(pck.boxes)
           e == FaultAt(disk.hfault, lv)
       IN  IF e = "ok"
           THEN /\ pck' = [pck EXCEPT !.boxes = Append(@, disk.nboxes[lv + 1])]
                /\ UNCHANGED <<opc, oerr>>
           ELSE /\ oerr' = Surface(oarg.validate_mode, e)
                /\ opc' = "raised"
                /\ UNCHANGED pck
    /\ UNCHANGED <<disk, oarg, notOpen>>

\* read_boxes returns (line 389); line 200 chooses whether to read the cells
BoxesDone ==
    /\ opc = "boxes"
    /\ Len(pck.boxes) = LevelsToRead(pck.limit_level[1])
    /\ IF oarg.header_only
       THEN opc' = "done" /\ UNCHANGED pck
       ELSE opc' = "cells" /\ pck' = [pck EXCEPT !.has_cells = TRUE]
    /\ UNCHANGED <<disk, oarg, oerr, notOpen>>

\* the number of entries read_cell_headers keeps for level lv: the n_cells
\* of that level's Cell_H (line 410), which sizes indexes, files and offsets
CellEntries_FromHeader(d, lv) == d.nboxes[lv + 1]

CellEntries(d, lv) == d.ncells[lv + 1]

\* one iteration of the loop of read_cell_headers (lines 398-449)
ReadCellsLevel ==
    /\ opc = "cells"
    /\ Len(pck.cells) < LevelsToRead(pck.limit_level[1])
    /\ LET lv == Len(pck.cells)
           e == FaultAt(disk.cfault, lv)
       IN  IF e = "ok"
           THEN /\ pck' = [pck EXCEPT !.cells = Append(@, CellEntries(disk, lv))]
                /\ UNCHANGED <<opc, oerr>>
           ELSE /\ oerr' = Surface(oarg.validate_mode, e)
                /\ opc' = "raised"
                /\ UNCHANGED pck
    /\ UNCHANGED <<disk, oarg, notOpen>>

\* read_cell_headers returns (line 450); __init__ completes
CellsDone ==
    /\ opc = "cells"
    /\ Len(pck.cells) = LevelsToRead(pck.limit_level[1])
    /\ opc' = "done"
    /\ UNCHANGED <<disk, oarg, pck, oerr, notOpen>>

NextOpen ==
    OpenAny \/ CheckLimit \/ ReadBoxesLevel \/ BoxesDone \/ ReadCellsLevel \/ CellsDone

SpecOpen == InitOpen /\ [][NextOpen]_vars

(***************************************************************************)
(* Claims about opening a plotfile (SpecOpen)                              *)
(***************************************************************************)
\* the limit_level the caller asked for (max_level when none is given)
Requested == IF oarg.limit_level = None THEN disk.max_level ELSE oarg.limit_level[1]

\* the first level among 0..n-1 whose block faults, or n when none does
FirstFault(faults, n) ==
    IF \E k \in 0..(n - 1) : FaultAt(faults, k) # "ok"
    THEN CHOOSE k \in 0..(n - 1) :
            /\ FaultAt(faults, k) # "ok"
            /\ \A j \in 0..(k - 1) : FaultAt(faults, j) = "ok"
    ELSE n

\* C8: opening with limit_level greater than max_level raises the usage error
\* before any box geometry or cell header is read, in validate mode as well
\* as outside it; it is never turned into TastesBadError.
C8_LimitAboveMaxIsUsageError ==
    (/\ opc \notin {"closed", "limit"}
     /\ oarg.limit_level # None
     /\ oarg.limit_level[1] > disk.max_level) =>
        /\ opc = "raised"
        /\ oerr = RawError(LimitError)
        /\ pck.boxes = <<>>
        /\ pck.cells = <<>>
        /\ ~pck.has_cells

C8_Witness ==
    /\ opc = "raised"
    /\ oarg.validate_mode
    /\ oarg.limit_level = Some(disk.max_level + 1)
    /\ disk.hfault[1] # "ok"
    /\ oerr = RawError(LimitError)

\* C9 as stated: for a requested limit_level L with 0 <= L <= max_level (L =
\* max_level when none is given) a successfully opened plotfile has
\* limit_level = L <= max_level and exactly L+1 levels of box geometry and of
\* cell headers.
C9_LevelsMaterialized ==
    (opc = "done" /\ Requested \in 0..disk.max_level) =>
        /\ pck.limit_level = Some(Requested)
        /\ pck.limit_level[1] <= pck.max_level
        /\ Len(pck.boxes) = Requested + 1
        /\ Len(pck.cells) = Requested + 1

\* C9 amended: ... exactly L+1 levels of box geometry, those of levels 0..L of
\* the Header in order, and exactly L+1 levels of cell headers unless
\* header_only is set, in which case no cell header is read.
C9_LevelsMaterializedUnlessHeaderOnly ==
    (opc = "done" /\ Requested \in 0..disk.max_level) =>
        /\ pck.limit_level = Some(Requested)
        /\ pck.limit_level[1] <= pck.max_level
        /\ pck.boxes = [lv \in 1..(Requested + 1) |-> disk.nboxes[lv]]
        /\ IF oarg.header_only
           THEN ~pck.has_cells /\ pck.cells = <<>>
           ELSE pck.has_cells /\ pck.cells = [lv \in 1..(Requested + 1) |-> disk.ncells[lv]]

C9_Witness ==
    /\ opc = "done"
    /\ ~oarg.header_only
    /\ disk.max_level = 2
    /\ oarg.limit_level = Some(1)
    /\ pck.limit_level = Some(1)
    /\ Len(pck.boxes) = 2
    /\ Len(pck.cells) = 2

C11_BoxCountsAgree ==
    (opc = "done" /\ ~oarg.header_only) =>
        \A lv \in 1..LevelsToRead(pck.limit_level[1]) : pck.boxes[lv] = pck.cells[lv]

\* C11 amended: the two counts are the ones the two files declare, each read
\* on its own and never compared; they agree at a level exactly when the
\* Header and the Cell_H of that level declare the same number of boxes.
C11_BoxCountsAsDeclared ==
    (opc = "done" /\ ~oarg.header_only) =>
        \A lv \in 1..LevelsToRead(pck.limit_level[1]) :
            /\ pck.boxes[lv] = disk.nboxes[lv]
            /\ pck.cells[lv] = disk.ncells[lv]
            /\ (pck.boxes[lv] = pck.cells[lv]) <=> (disk.nboxes[lv] = disk.ncells[lv])

C11_Witness ==
    /\ opc = "done"
    /\ ~oarg.header_only
    /\ pck.limit_level = Some(1)
    /\ disk.nboxes[1] = disk.ncells[1]
    /\ pck.boxes[1] = pck.cells[1]
    /\ disk.nboxes[2] # disk.ncells[2]
    /\ pck.boxes[2] # pck.cells[2]

(***************************************************************************)
(* SpecEq: PlotfileCooker.__eq__                                           *)
(*                                                                         *)
(* A parsed plotfile is reduced to what __eq__ and this claim look at:     *)
(* limit_level, boxes[lv] (one coordinate per box), cells[lv]['indexes']   *)
(* (one global index per box), and the rest (fields, binary files and      *)
(* offsets), which __eq__ never reads.                                     *)
(***************************************************************************)
MaxEqLevel == 1     \* largest limit_level of a compared plotfile
MaxEqBoxes == 3     \* largest number of boxes on a level of a compared plotfile

\* a box as <<coordinate, global index>>
EqBoxKinds == {<<0, 100000>>, <<1, 100000>>, <<0, 100001>>}
EqLevels == UNION {[1..n -> EqBoxKinds] : n \in 1..MaxEqBoxes}

\* the finer levels vary in their number of boxes only
EqFineLevels == UNION {[1..n -> {<<0, 100000>>}] : n \in 1..MaxEqBoxes}

\* rest stands for the fields, binary files and offsets
Parsed ==
    UNION {[limit_level : {ll},
            lvs : {f \in [1..(ll + 1) -> EqLevels] :
                      \A lv \in 2..(ll + 1) : f[lv] \in EqFineLevels},
            rest : 1..2] : ll \in 0..MaxEqLevel}

\* self.boxes[lv] and self.cells[lv]['indexes'], lv counted from 0
BoxesOf(p, lv) == [k \in 1..Len(p.lvs[lv + 1]) |-> p.lvs[lv + 1][k][1]]
IndexesOf(p, lv) == [k \in 1..Len(p.lvs[lv + 1]) |-> p.lvs[lv + 1][k][2]]

Abs(x) == IF x < 0 THEN -x ELSE x

\* np.isclose on two numbers with the default rtol = 1e-5, atol = 1e-8:
\* |a - b| <= atol + rtol * |b|; on integers that is a = b or
\* |a - b| * 10^5 <= |b|
isclose(a, b) ==
    \/ a = b
    \/ Abs(a - b) <= 20000 /\ Abs(a - b) * 100000 <= Abs(b)

\* np.allclose on two lists of boxes: the leading axes are broadcast, a list
\* of one box against every box of the other, and two different lengths
\* above one cannot be broadcast
allclose(x, y) ==
    IF Len(x) = Len(y)
    THEN [ok |-> TRUE, val |-> \A k \in 1..Len(x) : isclose(x[k], y[k])]
    ELSE IF Len(x) = 1
    THEN [ok |-> TRUE, val |-> \A k \in 1..Len(y) : isclose(x[1], y[k])]
    ELSE IF Len(y) = 1
    THEN [ok |-> TRUE, val |-> \A k \in 1..Len(x) : isclose(x[k], y[1])]
    ELSE Raise("ValueError")

\* lines 241-254
Pck_eq(self, other) ==
    IF self.limit_level # other.limit_level
    THEN [ok |-> TRUE, val |-> FALSE]
    ELSE LET n == self.limit_level + 1
             step(i) == IF i <= n
                        THEN allclose(BoxesOf(self, i - 1), BoxesOf(other, i - 1))
                        ELSE allclose(IndexesOf(self, i - n - 1),
                                      IndexesOf(other, i - n - 1))
             stops(i) == ~step(i).ok \/ ~step(i).val
         IN  IF \E i \in 1..(2 * n) : stops(i)
             THEN LET i == CHOOSE i \in 1..(2 * n) :
                              stops(i) /\ \A j \in 1..(i - 1) : ~stops(j)
                  IN  IF step(i).ok THEN [ok |-> TRUE, val |-> FALSE] ELSE step(i)
             ELSE [ok |-> TRUE, val |-> TRUE]

InitEq ==
    /\ pa \in Parsed
    /\ pb \in Parsed
    /\ eqret = None
    /\ ParkRead
    /\ ParkPool
    /\ ParkSel
    /\ ParkOpen
    /\ ParkGhost
    /\ ParkWrite
    /\ ParkBin

\* pa == pb
Compare ==
    /\ eqret = None
    /\ eqret' = Some(Pck_eq(pa, pb))
    /\ UNCHANGED <<pa, pb, notEq>>

NextEq == Compare

SpecEq == InitEq /\ [][NextEq]_vars

\* the two plotfiles have the same limit_level, identical box geometries and
\* identical global index ranges at every level
SameStructure(a, b) ==
    /\ a.limit_level = b.limit_level
    /\ \A lv \in 0..a.limit_level :
          /\ BoxesOf(a, lv) = BoxesOf(b, lv)
          /\ IndexesOf(a, lv) = IndexesOf(b, lv)

\* C12: pa == pb returns True exactly when the two plotfiles have the same
\* limit_level, identical box geometries and identical global index ranges at
\* every level, and returns False in every other case, different numbers of
\* boxes at a level included; fields and binary files play no part.
C12_EqIsStructuralIdentity ==
    eqret # None =>
        eqret[1] = [ok |-> TRUE, val |-> SameStructure(pa, pb)]

(***************************************************************************)
(* SpecGhost: compute_box_array and compute_ghost_map on one level of a    *)
(* 3D plotfile with limit_level = 0.                                       *)
(*                                                                         *)
(* Axes are 1..3, cell and lattice indexes count from 0 as in the code,    *)
(* box ids are 0..n-1 in file order.  The level is a rectilinear tiling:   *)
(* every axis is cut into segments, a box is a product of one segment per  *)
(* axis, at most one tile has no box, and the file lists the boxes in      *)
(* tile order or in the reverse order.                                     *)
(***************************************************************************)
MaxGrid == 6        \* most cells along the first axis
MaxGridSide == 4    \* most cells along the second and the third axis

Axes == 1..3
BoxExtents == {2, 3}    \* cells of a box along one axis

RECURSIVE SeqSum(_)
SeqSum(s) == IF s = <<>> THEN 0 ELSE s[1] + SeqSum(Tail(s))

\* the ways of cutting an axis of at most n cells into segments
Cuts(n) ==
    {s \in UNION {[1..k -> BoxExtents] : k \in 1..(n \div 2)} : SeqSum(s) <= n}

\* first and last cell of segment k of the cut s
SegLo(s, k) == SeqSum(SubSeq(s, 1, k - 1))
SegHi(s, k) == SeqSum(SubSeq(s, 1, k)) - 1

\* the level with the cuts c (one per axis), without tile number skip of the
\* tile order (0: every tile has a box), in reverse order when rev
GhostLevel(c, skip, rev) ==
    LET n == [a \in Axes |-> Len(c[a])]
        total == n[1] * n[2] * n[3]
        tile(t) == <<(t \div (n[2] * n[3])) + 1,
                     ((t \div n[3]) % n[2]) + 1,
                     (t % n[3]) + 1>>
        box(t) == <<[a \in Axes |-> SegLo(c[a], tile(t)[a])],
                    [a \in Axes |-> SegHi(c[a], tile(t)[a])]>>
        kept == SelectSeq([i \in 1..total |-> i], LAMBDA i : i # skip)
        m == Len(kept)
    IN  [grid_sizes |-> [a \in Axes |-> SeqSum(c[a])],
         indexes |-> [i \in 1..m |->
                        box(kept[IF rev THEN m + 1 - i ELSE i] - 1)]]

GhostLevels ==
    {l \in {GhostLevel(<<c1, c2, c3>>, skip, rev) :
        c1 \in Cuts(MaxGrid), c2 \in Cuts(MaxGridSide), c3 \in Cuts(MaxGridSide),
        skip \in 0..2, rev \in BOOLEAN} : l.indexes # <<>>}

SetMin(S) == CHOOSE x \in S : \A y \in S : x <= y
SetMax(S) == CHOOSE x \in S : \A y \in S : x >= y

\* unique_box_shapes and line 667: the smallest extent of any box
box_rez(lv) ==
    SetMin({lv.indexes[i][2][a] - lv.indexes[i][1][a] + 1 :
            i \in 1..Len(lv.indexes), a \in Axes})

\* lines 671-681: the lattice shape, the lattice ranges of the boxes and the
\* lattice, where a later box overwrites an earlier one and -1 is no box
compute_box_array(lv) ==
    LET rez == box_rez(lv)
        shape == [a \in Axes |-> lv.grid_sizes[a] \div rez]
        idx == [i \in 1..Len(lv.indexes) |->
                  <<[a \in Axes |-> lv.indexes[i][1][a] \div rez],
                    [a \in Axes |-> lv.indexes[i][2][a] \div rez]>>]
        cells == {c \in [Axes -> 0..(SetMax({shape[a] : a \in Axes}) - 1)] :
                     \A a \in Axes : c[a] < shape[a]}
        on(c) == {i \in 1..Len(idx) :
                     \A a \in Axes : idx[i][1][a] <= c[a] /\ c[a] <= idx[i][2][a]}
    IN  [shape |-> shape,
         barr_indices |-> idx,
         box_array |-> [c \in cells |-> IF on(c) = {} THEN -1 ELSE SetMax(on(c)) - 1]]

\* np.unique of box_array[start[1]:stop[1], start[2]:stop[2], start[3]:stop[3]]
\* without box_index, as the sorted list the loop appends
Neighbors(arr, start, stop, box_index) ==
    LET ids == {arr.box_array[c] :
                   c \in {d \in DOMAIN arr.box_array :
                             \A a \in Axes : start[a] <= d[a] /\ d[a] < stop[a]}}
                \ {box_index}
    IN  CHOOSE s \in [1..Cardinality(ids) -> ids] :
            \A i, j \in 1..Cardinality(ids) : i < j => s[i] < s[j]

\* lines 699-705: the low face of axis coo
LowFace(arr, i, coo) ==
    LET lo == arr.barr_indices[i][1]
        hi == arr.barr_indices[i][2]
    IN  Neighbors(arr, [lo EXCEPT ![coo] = Max(lo[coo] - 1, 0)], hi, i - 1)

\* lines 707-714: the high face of axis coo
HighFace(arr, i, coo) ==
    LET lo == arr.barr_indices[i][1]
        hi == arr.barr_indices[i][2]
    IN  Neighbors(arr, lo,
                  [a \in Axes |-> IF a = coo THEN Min(hi[a] + 2, arr.shape[a] - 1)
                                  ELSE hi[a] + 1], i - 1)

\* lines 693-717: gmap[coo][0] and gmap[coo][1] of every box
compute_ghost_map(arr) ==
    [i \in 1..Len(arr.barr_indices) |->
        [coo \in Axes |-> [lo |-> LowFace(arr, i, coo), hi |-> HighFace(arr, i, coo)]]]

InitGhost ==
    /\ glv \in GhostLevels
    /\ garr = None
    /\ gmap = None
    /\ ParkRead
    /\ ParkPool
    /\ ParkSel
    /\ ParkOpen
    /\ ParkEq
    /\ ParkWrite
    /\ ParkBin

\* line 218
ComputeBoxArray ==
    /\ garr = None
    /\ garr' = Some(compute_box_array(glv))
    /\ UNCHANGED <<glv, gmap, notGhost>>

\* line 219
ComputeGhostMap ==
    /\ garr # None
    /\ gmap = None
    /\ gmap' = Some(compute_ghost_map(garr[1]))
    /\ UNCHANGED <<glv, garr, notGhost>>

NextGhost == ComputeBoxArray \/ ComputeGhostMap

SpecGhost == InitGhost /\ [][NextGhost]_vars

(***************************************************************************)
(* Claims about the ghost map (SpecGhost)                                  *)
(***************************************************************************)
Elems(s) == {s[k] : k \in DOMAIN s}

\* every box of the level has the same shape
UniformShapes(lv) ==
    \A i, j \in 1..Len(lv.indexes) : \A a \in Axes :
        lv.indexes[i][2][a] - lv.indexes[i][1][a] = lv.indexes[j][2][a] - lv.indexes[j][1][a]

\* C13: on a level of non-overlapping boxes with uniform shapes, box C is in
\* the high-face list of box B on axis a exactly when B is in the low-face
\* list of C on axis a.
C13_GhostMapSymmetric ==
    (gmap # None /\ UniformShapes(glv)) =>
        \A b, c \in 1..Len(glv.indexes) : \A a \in Axes :
            (c - 1 \in Elems(gmap[1][b][a].hi)) <=> (b - 1 \in Elems(gmap[1][c][a].lo))

\* C14: a box whose lattice range touches index 0 on an axis has an empty
\* low-face list on that axis, and one whose lattice range touches the last
\* index has an empty high-face list; compute_ghost_map raises nothing.
C14_BoundaryFacesEmpty ==
    gmap # None =>
        \A b \in 1..Len(glv.indexes) : \A a \in Axes :
            /\ garr[1].barr_indices[b][1][a] = 0 => gmap[1][b][a].lo = <<>>
            /\ garr[1].barr_indices[b][2][a] >= garr[1].shape[a] - 1
                  => gmap[1][b][a].hi = <<>>

\* C18: every entry of every neighbor list is the id of another box of the
\* level, never the box's own id and never the -1 of the lattice, and no id
\* appears twice in a list, also when the boxes do not cover the lattice.
C18_NeighborsAreOtherBoxes ==
    gmap # None =>
        \A b \in 1..Len(glv.indexes) : \A a \in Axes :
            \A l \in {gmap[1][b][a].lo, gmap[1][b][a].hi} :
                /\ Elems(l) \subseteq (0..(Len(glv.indexes) - 1)) \ {b - 1}
                /\ Cardinality(Elems(l)) = Len(l)

(***************************************************************************)
(* SpecWrite: write_global_header_new_fields, writehdrnewboxes and the     *)
(* parse of the Header they write (__init__ lines 146-173, read_boxes).    *)
(*                                                                         *)
(* A Header is its sequence of lines and a line the sequence of its        *)
(* whitespace-separated tokens.  A number stands for its text (str and     *)
(* int/float are inverse on the numbers used), a token of the grid line    *)
(* "((0,0,0) (7,7,7) (0,0,0))" is the sequence of its integers, and the    *)
(* token "Level_n/Cell" is <<"Level", n>>.                                 *)
(***************************************************************************)
MaxWLevel == 1      \* largest max_level of the plotfile whose header is written
MaxWBoxes == 2      \* largest number of boxes on one of its levels
MaxWFields == 2     \* longest list of field names handed to a writer

\* box k of level lv: ndims pairs [lo, hi]
WBox(ndims, lv, k) == [d \in 1..ndims |-> <<100 * lv + 10 * k + d, 100 * lv + 10 * k + d + 5>>]

\* the parsed plotfiles: 2 or 3 dimensions, max_level, limit_level, and the
\* number of boxes of every level read
WModels ==
    UNION {[ndims : {2, 3},
            max_level : {ml},
            limit_level : {ll},
            nb : [1..(ll + 1) -> 1..MaxWBoxes]] : 
           <<ml, ll>> \in {x \in (0..MaxWLevel) \X (0..MaxWLevel) : x[2] <= x[1]}}

\* the attributes of self the writers use, for the plotfile m of WModels
WSelf(m) ==
    [ndims |-> m.ndims,
     max_level |-> m.max_level,
     limit_level |-> m.limit_level,
     version |-> <<"HyperCLaw-V1.1">>,
     time |-> 7,
     geo_low |-> [d \in 1..m.ndims |-> 0],
     geo_high |-> [d \in 1..m.ndims |-> 1],
     factors |-> [lv \in 1..m.max_level |-> 2],
     grid_sizes |-> [lv \in 1..(m.max_level + 1) |-> [d \in 1..m.ndims |-> 8 * lv + d]],
     step_numbers |-> [lv \in 1..(m.max_level + 1) |-> 40 + lv],
     dx |-> [lv \in 1..(m.max_level + 1) |-> [d \in 1..m.ndims |-> 60 + lv]],
     sys_coord |-> <<0>>,
     boxes |-> [lv \in 1..(m.limit_level + 1) |->
                  [k \in 1..m.nb[lv] |-> WBox(m.ndims, lv, k)]]]

\* the lists of field names a caller passes, duplicates included
WFieldLists == UNION {[1..n -> Names] : n \in 0..MaxWFields}

\* len(field_names) != len(np.unique(field_names)), line 755
HasDuplicates(names) == Len(names) # Cardinality({names[i] : i \in DOMAIN names})

\* self.factors[:n] and the like
Prefix(s, n) == SubSeq(s, 1, Min(Max(n, 0), Len(s)))

RECURSIVE Flatten(_)
Flatten(ss) == IF ss = <<>> THEN <<>> ELSE ss[1] \o Flatten(Tail(ss))

\* the grid line: per level the tokens "((0,..,0)", "(s1-1,..,sn-1)", "(0,..,0))"
GridLine_NoMinus(self) ==
    Flatten([lv \in 1..(self.limit_level + 1) |->
                <<[d \in 1..self.ndims |-> 0],
                  [d \in 1..self.ndims |-> self.grid_sizes[lv][d]],
                  [d \in 1..self.ndims |-> 0]>>])

GridLine(self) ==
    Flatten([lv \in 1..(self.limit_level + 1) |->
                <<[d \in 1..self.ndims |-> 0],
                  [d \in 1..self.ndims |-> self.grid_sizes[lv][d] - 1],
                  [d \in 1..self.ndims |-> 0]>>])

\* the lines of one level: level info, level step, the boxes, the path
LevelLines(self, lv, boxes, time, step) ==
    <<<<lv, Len(boxes[lv + 1]), time>>, <<step>>>>
    \o Flatten([k \in 1..Len(boxes[lv + 1]) |->
                  [d \in 1..self.ndims |-> <<boxes[lv + 1][k][d][1], boxes[lv + 1][k][d][2]>>]])
    \o <<<<<<"Level", lv>>>>>>

\* the lines both writers produce, which differ in the time, the refinement
\* factors, the step numbers and the boxes
HeaderLines(self, fields, boxes, time, factors, steps) ==
    <<self.version, <<Len(fields)>>>>
    \o [i \in 1..Len(fields) |-> <<fields[i]>>]
    \o <<<<self.ndims>>, <<time>>, <<self.limit_level>>, self.geo_low, self.geo_high,
         factors, GridLine(self), Prefix(steps, self.limit_level + 1)>>
    \o [lv \in 1..(self.limit_level + 1) |-> self.dx[lv]]
    \o <<self.sys_coord, <<0>>>>
    \o Flatten([lv \in 1..(self.limit_level + 1) |->
                  LevelLines(self, lv - 1, boxes, time, steps[lv])])

\* what a writer leaves: its result and the target file
WriterOutcome(result, opened, lines) == [ret |-> result, opened |-> opened, lines |-> lines]

\* lines 752-811
write_global_header_new_fields(self, old, field_names) ==
    IF HasDuplicates(field_names)
    THEN WriterOutcome(Raise("ValueError"), FALSE, old)
    ELSE WriterOutcome([ok |-> TRUE], TRUE,
                       HeaderLines(self, field_names, self.boxes, self.time,
                                   Prefix(self.factors, self.limit_level + 1),
                                   self.step_numbers))

\* lines 817-874; os.makedirs(os.getcwd(), pfdir) of line 818 passes pfdir as
\* the mode and raises TypeError
writehdrnewboxes(self, old, dir_exists, boxes, fields) ==
    IF ~dir_exists
    THEN WriterOutcome(Raise("TypeError"), FALSE, old)
    ELSE WriterOutcome([ok |-> TRUE], TRUE,
                       HeaderLines(self, fields, boxes, 0,
                                   Prefix(self.factors, self.limit_level),
                                   [lv \in 1..(self.limit_level + 1) |-> 0]))

\* hfile.readline().split(): no token past the end of the file
LineAt(lines, i) == IF i \in 1..Len(lines) THEN lines[i] ELSE <<>>

\* read_boxes, lines 360-389, from line pos on, levels lv..limit_level
RECURSIVE read_boxes(_, _, _, _, _, _)
read_boxes(lines, pos, lv, limit_level, ndims, acc) ==
    IF lv > limit_level THEN [ok |-> TRUE, boxes |-> acc]
    ELSE LET head == LineAt(lines, pos)
         IN  IF Len(head) # 3 THEN Raise("ValueError")
             ELSE IF head[1] # lv THEN Raise("AssertionError")
             ELSE LET n == head[2]
                      at(k, d) == LineAt(lines, pos + 2 + (k - 1) * ndims + (d - 1))
                  IN  IF \E k \in 1..n, d \in 1..ndims : Len(at(k, d)) # 2
                      THEN Raise("ValueError")
                      ELSE read_boxes(lines, pos + 2 + n * ndims + 1, lv + 1,
                                      limit_level, ndims,
                                      Append(acc, [k \in 1..n |->
                                                     [d \in 1..ndims |-> at(k, d)]]))

\* PlotfileCooker(plt_path, header_only=True) on the written Header:
\* lines 146-185
ParseHeader(lines) ==
    LET nvars == lines[2][1]
        p == 2 + nvars
        ndims == lines[p + 1][1]
        max_level == lines[p + 3][1]
        grid == lines[p + 7]
        zero == LineAt(lines, p + 11 + max_level)
        rb == read_boxes(lines, p + 12 + max_level, 0, max_level, ndims, <<>>)
    IN  IF zero # <<0>> THEN Raise("AssertionError")
        ELSE IF ~rb.ok THEN rb
        ELSE [ok |-> TRUE,
              fields |-> [i \in 1..nvars |-> lines[2 + i][1]],
              ndims |-> ndims,
              max_level |-> max_level,
              limit_level |-> max_level,
              grid_sizes |-> [k \in 1..(Len(grid) \div 3) |->
                                [d \in DOMAIN grid[3 * k - 1] |-> grid[3 * k - 1][d] + 1]],
              boxes |-> rb.boxes]

InitWrite ==
    /\ wself \in {WSelf(m) : m \in WModels}
    /\ wreq = None
    /\ wfile = [opened |-> FALSE, lines |-> <<<<"old">>>>]
    /\ wret = None
    /\ wback = None
    /\ ParkRead
    /\ ParkPool
    /\ ParkSel
    /\ ParkOpen
    /\ ParkEq
    /\ ParkGhost
    /\ ParkBin

\* the writer call leaves out (ret, opened, lines)
Written(op, fields, dir_exists, out) ==
    /\ wreq = None
    /\ wreq' = Some([op |-> op, fields |-> fields, dir_exists |-> dir_exists])
    /\ wret' = Some(out.ret)
    /\ wfile' = [opened |-> out.opened, lines |-> out.lines]
    /\ UNCHANGED <<wself, wback, notWrite>>

\* self.write_global_header_new_fields(plt_path, field_names)
WriteNewFields ==
    \E fields \in WFieldLists :
        Written("write_global_header_new_fields", fields, TRUE,
                write_global_header_new_fields(wself, wfile.lines, fields))

\* self.writehdrnewboxes(pfdir, self.boxes, fields)
WriteNewBoxes ==
    \E fields \in WFieldLists, dir_exists \in BOOLEAN :
        Written("writehdrnewboxes", fields, dir_exists,
                writehdrnewboxes(wself, wfile.lines, dir_exists, wself.boxes, fields))

\* PlotfileCooker on the written plotfile
Reparse ==
    /\ wret # None
    /\ wret[1].ok
    /\ wback = None
    /\ wback' = Some(ParseHeader(wfile.lines))
    /\ UNCHANGED <<wself, wreq, wfile, wret, notWrite>>

NextWrite == WriteNewFields \/ WriteNewBoxes \/ Reparse

SpecWrite == InitWrite /\ [][NextWrite]_vars

(***************************************************************************)
(* Claims about the header writers (SpecWrite)                             *)
(***************************************************************************)
\* C15: writing the header with write_global_header_new_fields and any
\* duplicate-free list of field names, then parsing the written header,
\* gives a plotfile with the same limit_level, the same grid sizes at every
\* level 0..limit_level and the same box geometries in the same order.
C15_HeaderRoundTrip ==
    (wback # None /\ wreq[1].op = "write_global_header_new_fields") =>
        /\ ~HasDuplicates(wreq[1].fields)
        /\ wback[1].ok
        /\ wback[1].limit_level = wself.limit_level
        /\ wback[1].grid_sizes = Prefix(wself.grid_sizes, wself.limit_level + 1)
        /\ wback[1].boxes = wself.boxes
        /\ wback[1].fields = wreq[1].fields

C15_Witness ==
    /\ wback # None
    /\ wreq[1].op = "write_global_header_new_fields"
    /\ Len(wreq[1].fields) = 2
    /\ wself.ndims = 3
    /\ wself.max_level = 1
    /\ wself.limit_level = 1
    /\ Len(wself.boxes[2]) = 2
    /\ wback[1].ok
    /\ wback[1].boxes = wself.boxes

\* C16: both writers that take a list of field names reject a list with a
\* duplicate name by raising before the target Header is opened, and leave
\* an existing file as it was.
C16_DuplicatesRejectedBeforeWrite ==
    (wreq # None /\ HasDuplicates(wreq[1].fields)) =>
        /\ ~wret[1].ok
        /\ ~wfile.opened
        /\ wfile.lines = <<<<"old">>>>

(***************************************************************************)
(* SpecBin: bybinfile and map_bfile_offsets on one level                   *)
(*                                                                         *)
(* The level is one of Levels; the global index range of the box at        *)
(* position i of the header (counted from 0) is IndexRange(i).             *)
(***************************************************************************)
IndexRange(i) == <<10 * i, 10 * i + 7>>

\* np.unique: the distinct values in increasing order
np_unique(s) ==
    LET vals == {s[k] : k \in DOMAIN s}
    IN  CHOOSE u \in [1..Cardinality(vals) -> vals] :
            \A i, j \in 1..Cardinality(vals) : i < j => u[i] < u[j]

\* lines 485-494: one tuple (bf, offsets[bf_indexes], indexes[bf_indexes])
\* per value of np.unique(bfiles)
bybinfile_Unmasked(lv) ==
    LET u == np_unique(lv.files)
    IN  [g \in 1..Len(u) |->
            <<u[g], lv.offsets, [k \in 1..Len(lv.files) |-> IndexRange(k - 1)]>>]

bybinfile(lv) ==
    LET u == np_unique(lv.files)
        bf_indexes(bf) == MaskPositions([k \in 1..Len(lv.files) |-> lv.files[k] = bf],
                                        Len(lv.files))
    IN  [g \in 1..Len(u) |->
            <<u[g],
              [k \in 1..Len(bf_indexes(u[g])) |-> lv.offsets[bf_indexes(u[g])[k] + 1]],
              [k \in 1..Len(bf_indexes(u[g])) |-> IndexRange(bf_indexes(u[g])[k])]>>]

\* lines 549-556: np.flatnonzero(bf == bfiles) per value of np.unique(bfiles)
map_bfile_offsets(lv) ==
    LET u == np_unique(lv.files)
    IN  [g \in 1..Len(u) |->
            MaskPositions([k \in 1..Len(lv.files) |-> u[g] = lv.files[k]], Len(lv.files))]

InitBin ==
    /\ blv \in Levels
    /\ byield = None
    /\ bmap = None
    /\ ParkRead
    /\ ParkPool
    /\ ParkSel
    /\ ParkOpen
    /\ ParkEq
    /\ ParkGhost
    /\ ParkWrite

\* list(self.bybinfile(lv))
Bybinfile ==
    /\ byield = None
    /\ byield' = Some(bybinfile(blv))
    /\ UNCHANGED <<blv, bmap, notBin>>

\* self.map_bfile_offsets(lv)
MapBfileOffsets ==
    /\ bmap = None
    /\ bmap' = Some(map_bfile_offsets(blv))
    /\ UNCHANGED <<blv, byield, notBin>>

NextBin == Bybinfile \/ MapBfileOffsets

SpecBin == InitBin /\ [][NextBin]_vars

\* the header positions (from 0) of the boxes that entry k of group g may be:
\* the boxes of the group's file with that offset and that index range
BoxesAt(lv, grp, k) ==
    {i \in 0..(Len(lv.files) - 1) :
        /\ lv.files[i + 1] = grp[1]
        /\ lv.offsets[i + 1] = grp[2][k]
        /\ IndexRange(i) = grp[3][k]}

\* C17: bybinfile yields one group per distinct binary file of the level; in
\* a group the k-th offset and the k-th index range are those of one box of
\* that file, the boxes of a group are in header order, and over all groups
\* every box of the level appears exactly once.
C17_BybinfileGroups ==
    byield # None =>
        LET gs == byield[1]
        IN  /\ Len(gs) = Cardinality(DistinctFiles(blv))
            /\ {gs[g][1] : g \in 1..Len(gs)} = DistinctFiles(blv)
            /\ \A g \in 1..Len(gs) :
                  /\ Len(gs[g][2]) = Len(gs[g][3])
                  /\ \A k \in 1..Len(gs[g][2]) : Cardinality(BoxesAt(blv, gs[g], k)) = 1
                  /\ \A j, k \in 1..Len(gs[g][2]) :
                        j < k => \A a \in BoxesAt(blv, gs[g], j), b \in BoxesAt(blv, gs[g], k) : a < b
            /\ \A i \in 0..(Len(blv.files) - 1) :
                  Cardinality({<<g, k>> \in (1..Len(gs)) \X (1..Len(blv.files)) :
                                  k <= Len(gs[g][2]) /\ i \in BoxesAt(blv, gs[g], k)}) = 1
            /\ bmap # None =>
                  \A g \in 1..Len(gs) : \A k \in 1..Len(gs[g][2]) :
                      BoxesAt(blv, gs[g], k) = {bmap[1][g][k]}

C17_Witness ==
    /\ byield # None
    /\ bmap # None
    /\ blv.files = <<2, 1, 2>>
    /\ Len(byield[1]) = 2
    /\ byield[1][2][1] = 2
    /\ byield[1][2][3] = <<IndexRange(0), IndexRange(2)>>

(***************************************************************************)
(* Claims about failed reads and worker pools (SpecPool)                   *)
(***************************************************************************)
\* C19: a box request in which the read of some box fails hands the caller
\* no box array as a successful value: while it runs and after it has
\* failed, nothing has been delivered.
C19_NoPartialResults ==
    /\ (pc = "imap" /\ \E t \in 1..Len(tasks) : <<tasks[t][1], tasks[t][2]>> \in bad)
          => yielded = <<>>
    /\ (pc = "idle" /\ breq.kind # "none" /\ ~ret.ok) => yielded = <<>>

\* C20: the worker pool of a multi-box request is torn down once the request
\* has completed: whenever no request is running, no pool is alive.
C20_NoPoolSurvives ==
    pc = "idle" => pools = 0

(***************************************************************************)
(* Claims about the field layer and the single-field reader together       *)
(* (SpecRead)                                                              *)
(***************************************************************************)
\* the integer index k passes the bounds check of LevelDataSelector.__init__
\* on a plotfile with F fields (for an integer the check depends on the
\* number of keys only, not on the names)
FieldLayerAccepts(F, k) ==
    Selector_init([i \in 1..F |-> "temp"], FieldArg("int", k)).ok

\* the byte, counted from the end of the record header, at which
\* bf.seek(np.prod(shape[:-1]) * args[2] * 8, 1) leaves the cursor
SeekTarget(r, k) == SpatialSize(shape_from_header(r)) * k * 8

\* the bytes [0, F*N*8) of the record's payload
PayloadEnd(r) == 8 * r.F * SpatialSize(shape_from_header(r))

\* C21: every integer field index the field layer accepts, negative ones
\* included, makes the single-field reader seek to a byte of the payload and
\* read N*8 bytes that lie inside [0, F*N*8): the seek is never before the
\* payload start nor past its end, and the N doubles returned are doubles of
\* the record.
C21_AcceptedIndexReadsInsidePayload ==
    (req.kind = "single" /\ FieldLayerAccepts(rec.F, req.farg)) =>
        LET N == SpatialSize(shape_from_header(rec))
            pos == SeekTarget(rec, req.farg)
        IN  /\ pos >= 0
            /\ pos + N * 8 <= PayloadEnd(rec)
            /\ res.ok
            /\ res.shape = <<rec.d0, rec.d1>>
            /\ \A ix \in DOMAIN res.at : res.at[ix] # Junk

====
